---- MODULE Spec2Model ----
(***************************************************************************)
(* RxTimer: a countdown timer with start/pause/resume/stop/reset controls  *)
(* and a lifecycle event stream.  The controller (RxTimer) delegates every *)
(* public call to its current state object (Stable, CountingToBeginTime,   *)
(* Counting).  Time is a discrete clock; rxjs interval(n).pipe(take(1)) is *)
(* a one-shot callback that fires when the clock reaches its due time.     *)
(***************************************************************************)
EXTENDS Integers, Sequences, FiniteSets, TLC

\* ---- bounds of the exploration ----
MaxTime == 6
MaxCalls == 4

\* configurations explored: durations in ms, and beginTime (0 = option unset,
\* which the code cannot tell from an undefined beginTime: both are falsy)
Durations == {2, 3}
BeginTimes == {0, 2}

VARIABLES
  duration,     \* RxTimer.duration
  continue,     \* RxTimer.options.continue
  beginTime,    \* RxTimer.options.beginTime (0 = unset)
  state,        \* class of RxTimer.state
  remaining,    \* RxTimer.remaining
  startTime,    \* RxTimer.startTime
  subscribed,   \* current state object's subscription field is non-null
  pending,      \* one-shot callbacks scheduled and neither fired nor unsubscribed
  now,          \* new Date().getTime()
  events,       \* what event$ has emitted, with the time of emission
  delivered,    \* for each emitted event, the active state and remaining time
                \* a subscriber finds when the event is delivered to it
  calls         \* public operations called so far, with the state they met
                \* and whether the clock was still before beginTime

vars == <<duration, continue, beginTime, state, remaining, startTime,
          subscribed, pending, now, events, delivered, calls>>

config == <<duration, continue, beginTime>>

\* The mutable part of the timer, as a record the handlers transform.
Cur ==
  [st |-> state, remaining |-> remaining, startTime |-> startTime,
   sub |-> subscribed, pending |-> pending, events |-> events,
   delivered |-> delivered]

RemoveAt(seq, i) ==
  [j \in 1..(Len(seq) - 1) |-> IF j < i THEN seq[j] ELSE seq[j + 1]]

\* ---- RxTimer (controller) ----
emitEvent(s, e) ==
  [s EXCEPT !.events = Append(@, [type |-> e, at |-> now]),
            !.delivered = Append(@, [st |-> s.st, remaining |-> s.remaining])]

\* variant: only the start time is initialised
initTimerKeepsRemaining(s) ==
  [s EXCEPT !.startTime = now]

initTimer(s) ==
  [s EXCEPT !.startTime = now, !.remaining = duration]

\* variant: the two reset values are swapped
resetTimerSwapped(s) ==
  [s EXCEPT !.remaining = -1, !.startTime = 0]

resetTimer(s) ==
  [s EXCEPT !.remaining = 0, !.startTime = -1]

\* setState(new X(timer)): the new state object has a null subscription; the
\* callbacks still pending belong to an object that is no longer current.
setState(s, tag) ==
  [s EXCEPT !.st = tag,
            !.sub = FALSE,
            !.pending = [i \in DOMAIN @ |-> [@[i] EXCEPT !.own = FALSE, !.cur = FALSE]]]

\* subscription?.unsubscribe() on the current state object: cancels the
\* callback its field refers to, if that is still pending.
unsubscribe(s) ==
  [s EXCEPT !.pending = SelectSeq(@, LAMBDA c : ~c.cur)]

\* ---- RxTimerCountingState ----
\* this.countingSubscription = interval(remaining).pipe(take(1)).subscribe(..)
\* byCurrent: `this` is the controller's current state object.  The field is
\* overwritten; a callback it referred to is not unsubscribed.
startTimerImmediately(s, byCurrent) ==
  LET demoted == [i \in DOMAIN s.pending |->
                    IF byCurrent THEN [s.pending[i] EXCEPT !.cur = FALSE]
                    ELSE s.pending[i]]
      cb == [kind |-> "count", due |-> now + s.remaining,
             own |-> byCurrent, cur |-> byCurrent]
  IN [s EXCEPT !.pending = Append(demoted, cb),
               !.sub = IF byCurrent THEN TRUE ELSE @]

\* variant: start() re-initialises even when resuming
CountingStartAlwaysInit(s) ==
  startTimerImmediately(emitEvent(initTimer(s), "START"), TRUE)

CountingStart(s) ==
  LET isResume == s.remaining > 0
      s1 == IF ~isResume THEN emitEvent(initTimer(s), "START") ELSE s
  IN startTimerImmediately(s1, TRUE)

\* variant: stop() forgets to unsubscribe the countdown
CountingStopKeepsCallback(s) ==
  IF ~s.sub THEN s
  ELSE emitEvent(setState(resetTimer(s), "Stable"), "STOP")

CountingStop(s) ==
  IF ~s.sub THEN s
  ELSE emitEvent(setState(resetTimer(unsubscribe(s)), "Stable"), "STOP")

\* variant: pause() forgets to unsubscribe the countdown
CountingPauseKeepsCallback(s) ==
  IF ~s.sub THEN s
  ELSE emitEvent(setState(s, "Stable"), "PAUSE")

CountingPause(s) ==
  IF ~s.sub THEN s
  ELSE emitEvent(setState(unsubscribe(s), "Stable"), "PAUSE")

\* variant: resume() while counting schedules the countdown again
CountingResumeReschedules(s) ==
  startTimerImmediately(s, TRUE)

CountingResume(s) ==
  s

CountingReset(s) ==
  IF ~s.sub THEN s
  ELSE emitEvent(setState(resetTimer(unsubscribe(s)), "Stable"), "RESET")

\* variant: the expiry forgets resetTimer() when not continuing
CountingExpireKeepsRemaining(s, i) ==
  LET cb == s.pending[i]
      s0 == [s EXCEPT !.pending = RemoveAt(@, i)]
  IN IF continue
     THEN startTimerImmediately(emitEvent(initTimer(s0), "TICK"), cb.own)
     ELSE setState(emitEvent(s0, "TICK"), "Stable")

\* the subscriber of startTimerImmediately, run for pending callback i
CountingExpire(s, i) ==
  LET cb == s.pending[i]
      s0 == [s EXCEPT !.pending = RemoveAt(@, i)]
  IN IF continue
     THEN startTimerImmediately(emitEvent(initTimer(s0), "TICK"), cb.own)
     ELSE setState(emitEvent(resetTimer(s0), "TICK"), "Stable")

\* ---- RxTimerCountingToBeginTimeState ----
\* variant: the comparison with the begin time is inverted
startTimerFromBeginningInverted(s) ==
  LET timeDifferenceToBeginTimer == beginTime - now
  IN IF timeDifferenceToBeginTimer > 0
     THEN CountingStart(setState(s, "Counting"))
     ELSE [s EXCEPT !.sub = TRUE,
                    !.pending = Append(@, [kind |-> "begin",
                                           due |-> now + timeDifferenceToBeginTimer,
                                           own |-> TRUE, cur |-> TRUE])]

\* variant: the begin-time wait is always scheduled, even for a past begin time
startTimerFromBeginningAlwaysWaits(s) ==
  LET timeDifferenceToBeginTimer == beginTime - now
      delay == IF timeDifferenceToBeginTimer < 0 THEN 0 ELSE timeDifferenceToBeginTimer
  IN [s EXCEPT !.sub = TRUE,
               !.pending = Append(@, [kind |-> "begin", due |-> now + delay,
                                      own |-> TRUE, cur |-> TRUE])]

startTimerFromBeginning(s) ==
  LET timeDifferenceToBeginTimer == beginTime - now
  IN IF timeDifferenceToBeginTimer < 0
     THEN CountingStart(setState(s, "Counting"))
     ELSE [s EXCEPT !.sub = TRUE,
                    !.pending = Append(@, [kind |-> "begin",
                                           due |-> now + timeDifferenceToBeginTimer,
                                           own |-> TRUE, cur |-> TRUE])]

\* variant: start() without the check that the wait is already running
CountingToBeginTimeStartUnguarded(s) ==
  IF beginTime = 0 THEN s
  ELSE startTimerFromBeginning(s)

CountingToBeginTimeStart(s) ==
  IF s.sub THEN s
  ELSE IF beginTime = 0 THEN s
  ELSE startTimerFromBeginning(s)

\* variant: the wait is left without unsubscribing
stopCountingToBeginTimeKeepsCallback(s) ==
  IF ~s.sub THEN s
  ELSE setState(s, "Stable")

stopCountingToBeginTime(s) ==
  IF ~s.sub THEN s
  ELSE setState(unsubscribe(s), "Stable")

\* variant: the begin-time subscriber switches state but never starts it
BeginTimeReachedNoStart(s, i) ==
  setState([s EXCEPT !.pending = RemoveAt(@, i)], "Counting")

\* the subscriber of startTimerFromBeginning, run for pending callback i
BeginTimeReached(s, i) ==
  CountingStart(setState([s EXCEPT !.pending = RemoveAt(@, i)], "Counting"))

\* ---- RxTimerStableState ----
StableIsPaused(s) == s.remaining > 0

StableStart(s) ==
  IF beginTime # 0
  THEN CountingToBeginTimeStart(setState(s, "CountingToBeginTime"))
  ELSE CountingStart(setState(s, "Counting"))

\* variant: stop() of a paused timer forgets resetTimer()
StableStopKeepsRemaining(s) ==
  IF ~StableIsPaused(s) THEN s
  ELSE emitEvent(s, "STOP")

StableStop(s) ==
  IF ~StableIsPaused(s) THEN s
  ELSE emitEvent(resetTimer(s), "STOP")

StablePause(s) == s

\* variant: resume() without the paused check
StableResumeUnguarded(s) ==
  emitEvent(CountingStart(setState(s, "Counting")), "RESUME")

StableResume(s) ==
  IF ~StableIsPaused(s) THEN s
  ELSE emitEvent(CountingStart(setState(s, "Counting")), "RESUME")

StableReset(s) ==
  IF ~StableIsPaused(s) THEN s
  ELSE emitEvent(resetTimer(s), "RESET")

\* ---- RxTimer public operations: this.state.op() ----
TimerStart(s) ==
  CASE s.st = "Stable" -> StableStart(s)
    [] s.st = "CountingToBeginTime" -> CountingToBeginTimeStart(s)
    [] s.st = "Counting" -> CountingStart(s)

TimerPause(s) ==
  CASE s.st = "Stable" -> StablePause(s)
    [] s.st = "CountingToBeginTime" -> stopCountingToBeginTime(s)
    [] s.st = "Counting" -> CountingPause(s)

TimerResume(s) ==
  CASE s.st = "Stable" -> StableResume(s)
    [] s.st = "CountingToBeginTime" -> s
    [] s.st = "Counting" -> CountingResume(s)

TimerStop(s) ==
  CASE s.st = "Stable" -> StableStop(s)
    [] s.st = "CountingToBeginTime" -> stopCountingToBeginTime(s)
    [] s.st = "Counting" -> CountingStop(s)

TimerReset(s) ==
  CASE s.st = "Stable" -> StableReset(s)
    [] s.st = "CountingToBeginTime" -> stopCountingToBeginTime(s)
    [] s.st = "Counting" -> CountingReset(s)

\* this.state.op() for the operation named op
TimerCall(s, op) ==
  CASE op = "start" -> TimerStart(s)
    [] op = "pause" -> TimerPause(s)
    [] op = "resume" -> TimerResume(s)
    [] op = "stop" -> TimerStop(s)
    [] op = "reset" -> TimerReset(s)

\* The subscriber of startTimerImmediately when a subscriber of event$ calls
\* the public operation op from inside its TICK handler: emitEvent(TICK) runs
\* the handler synchronously, then the subscriber goes on with the statement
\* after emitEvent.  `this` is still the controller's current state object
\* afterwards only if it was before and the handler left the state Counting.
CountingExpireHandled(s, i, op) ==
  LET cb == s.pending[i]
      s0 == [s EXCEPT !.pending = RemoveAt(@, i)]
  IN IF continue
     THEN LET s1 == TimerCall(emitEvent(initTimer(s0), "TICK"), op)
          IN startTimerImmediately(s1, cb.own /\ s1.st = "Counting")
     ELSE setState(TimerCall(emitEvent(resetTimer(s0), "TICK"), op), "Stable")

\* ---- a subscriber of event$ calling the timer from its START handler ----
\* RxTimerCountingState.start: emitEvent(START) runs the handler, which calls
\* the public operation op, before startTimerImmediately() has set the
\* object's countingSubscription.
CountingStartHandled(s, op) ==
  LET isResume == s.remaining > 0
      s1 == IF ~isResume
            THEN TimerCall(emitEvent(initTimer(s), "START"), op)
            ELSE s
  IN startTimerImmediately(s1, s1.st = "Counting")

startTimerFromBeginningHandled(s, op) ==
  LET timeDifferenceToBeginTimer == beginTime - now
  IN IF timeDifferenceToBeginTimer < 0
     THEN CountingStartHandled(setState(s, "Counting"), op)
     ELSE [s EXCEPT !.sub = TRUE,
                    !.pending = Append(@, [kind |-> "begin",
                                           due |-> now + timeDifferenceToBeginTimer,
                                           own |-> TRUE, cur |-> TRUE])]

CountingToBeginTimeStartHandled(s, op) ==
  IF s.sub THEN s
  ELSE IF beginTime = 0 THEN s
  ELSE startTimerFromBeginningHandled(s, op)

StableStartHandled(s, op) ==
  IF beginTime # 0
  THEN CountingToBeginTimeStartHandled(setState(s, "CountingToBeginTime"), op)
  ELSE CountingStartHandled(setState(s, "Counting"), op)

TimerStartHandled(s, op) ==
  CASE s.st = "Stable" -> StableStartHandled(s, op)
    [] s.st = "CountingToBeginTime" -> CountingToBeginTimeStartHandled(s, op)
    [] s.st = "Counting" -> CountingStartHandled(s, op)

BeginTimeReachedHandled(s, i, op) ==
  CountingStartHandled(setState([s EXCEPT !.pending = RemoveAt(@, i)], "Counting"), op)

\* ---- queries ----
StableIsCounting(s) == FALSE

\* variant: the reset check accepts any non-negative remaining time
StableIsStoppedNonNegative(s) ==
  LET isReset == s.remaining >= 0
  IN isReset

StableIsStopped(s) ==
  LET isReset == s.remaining = 0
  IN isReset

StableGetRemainingMilliseconds(s) == s.remaining

CountingToBeginTimeIsCounting(s) == FALSE

CountingToBeginTimeIsStopped(s) == TRUE

CountingToBeginTimeIsPaused(s) == FALSE

CountingToBeginTimeGetRemainingMilliseconds(s) == s.remaining

Max(a, b) == IF a >= b THEN a ELSE b

CountingIsCounting(s) == TRUE

CountingIsStopped(s) == FALSE

CountingIsPaused(s) == FALSE

CountingGetRemainingMilliseconds(s) ==
  Max(s.remaining - (now - s.startTime), 0)

isCounting ==
  CASE state = "Stable" -> StableIsCounting(Cur)
    [] state = "CountingToBeginTime" -> CountingToBeginTimeIsCounting(Cur)
    [] state = "Counting" -> CountingIsCounting(Cur)

isStopped ==
  CASE state = "Stable" -> StableIsStopped(Cur)
    [] state = "CountingToBeginTime" -> CountingToBeginTimeIsStopped(Cur)
    [] state = "Counting" -> CountingIsStopped(Cur)

isPaused ==
  CASE state = "Stable" -> StableIsPaused(Cur)
    [] state = "CountingToBeginTime" -> CountingToBeginTimeIsPaused(Cur)
    [] state = "Counting" -> CountingIsPaused(Cur)

getRemainingMilliseconds ==
  CASE state = "Stable" -> StableGetRemainingMilliseconds(Cur)
    [] state = "CountingToBeginTime" -> CountingToBeginTimeGetRemainingMilliseconds(Cur)
    [] state = "Counting" -> CountingGetRemainingMilliseconds(Cur)

\* ---- the state machine ----
Init ==
  /\ duration \in Durations
  /\ continue \in BOOLEAN
  /\ beginTime \in BeginTimes
  /\ state = "Stable"
  /\ remaining = 0
  /\ startTime = -1
  /\ subscribed = FALSE
  /\ pending = <<>>
  /\ now = 0
  /\ events = <<>>
  /\ delivered = <<>>
  /\ calls = <<>>

Become(s) ==
  /\ state' = s.st
  /\ remaining' = s.remaining
  /\ startTime' = s.startTime
  /\ subscribed' = s.sub
  /\ pending' = s.pending
  /\ events' = s.events
  /\ delivered' = s.delivered

Called(op) ==
  /\ Len(calls) < MaxCalls
  /\ calls' = Append(calls, [op |-> op, st |-> state, rem |-> remaining,
                               npend |-> Len(pending), nev |-> Len(events),
                               early |-> now < beginTime])
  /\ UNCHANGED <<config, now>>

Start == Called("start") /\ Become(TimerStart(Cur))

Pause == Called("pause") /\ Become(TimerPause(Cur))

Resume == Called("resume") /\ Become(TimerResume(Cur))

Stop == Called("stop") /\ Become(TimerStop(Cur))

Reset == Called("reset") /\ Become(TimerReset(Cur))

\* a countdown callback runs when its delay has elapsed
Expire ==
  \E i \in DOMAIN pending :
    /\ pending[i].kind = "count"
    /\ pending[i].due <= now
    /\ Become(CountingExpire(Cur, i))
    /\ UNCHANGED <<config, now, calls>>

\* names under which calls made from inside a TICK handler are recorded
PublicOps == {"start", "pause", "resume", "stop", "reset"}

InTick(op) ==
  CASE op = "start" -> "tick:start"
    [] op = "pause" -> "tick:pause"
    [] op = "resume" -> "tick:resume"
    [] op = "stop" -> "tick:stop"
    [] op = "reset" -> "tick:reset"

\* a countdown callback runs and a TICK handler calls a public operation
ExpireHandled ==
  \E i \in DOMAIN pending, op \in PublicOps :
    /\ pending[i].kind = "count"
    /\ pending[i].due <= now
    /\ Len(calls) < MaxCalls
    /\ Become(CountingExpireHandled(Cur, i, op))
    /\ calls' = Append(calls, [op |-> InTick(op), st |-> state,
                                 rem |-> IF continue THEN duration ELSE 0,
                                 npend |-> Len(pending) - 1,
                                 nev |-> Len(events) + 1,
                                 early |-> now < beginTime])
    /\ UNCHANGED <<config, now>>

\* the begin-time callback runs when its delay has elapsed
BeginTime ==
  \E i \in DOMAIN pending :
    /\ pending[i].kind = "begin"
    /\ pending[i].due <= now
    /\ Become(BeginTimeReached(Cur, i))
    /\ UNCHANGED <<config, now, calls>>

\* names under which calls made from inside a START handler are recorded
InStart(op) ==
  CASE op = "start" -> "start:start"
    [] op = "pause" -> "start:pause"
    [] op = "resume" -> "start:resume"
    [] op = "stop" -> "start:stop"
    [] op = "reset" -> "start:reset"

\* the call a START handler makes: it meets the Counting state just entered,
\* initialised and with no countdown scheduled by it yet
HandlerCalled(op, npend) ==
  [op |-> InStart(op), st |-> "Counting", rem |-> duration,
   npend |-> npend, nev |-> Len(events) + 1, early |-> now < beginTime]

\* start() emits START and a START handler calls a public operation
StartHandled ==
  \E op \in PublicOps :
    /\ Len(calls) + 2 <= MaxCalls
    /\ Len(TimerStart(Cur).events) > Len(events)
    /\ Become(TimerStartHandled(Cur, op))
    /\ calls' = calls \o
                  <<[op |-> "start", st |-> state, rem |-> remaining,
                     npend |-> Len(pending), nev |-> Len(events),
                     early |-> now < beginTime],
                    HandlerCalled(op, Len(pending))>>
    /\ UNCHANGED <<config, now>>

\* the begin-time callback runs, START is emitted and a START handler calls
\* a public operation
BeginTimeHandled ==
  \E i \in DOMAIN pending, op \in PublicOps :
    /\ pending[i].kind = "begin"
    /\ pending[i].due <= now
    /\ Len(calls) < MaxCalls
    /\ Len(BeginTimeReached(Cur, i).events) > Len(events)
    /\ Become(BeginTimeReachedHandled(Cur, i, op))
    /\ calls' = Append(calls, HandlerCalled(op, Len(pending) - 1))
    /\ UNCHANGED <<config, now>>

\* the clock advances one millisecond once every due callback has run
Advance ==
  /\ now < MaxTime
  /\ \A i \in DOMAIN pending : pending[i].due > now
  /\ now' = now + 1
  /\ UNCHANGED <<config, state, remaining, startTime, subscribed, pending,
                 events, delivered, calls>>

Next ==
  \/ Start
  \/ Pause
  \/ Resume
  \/ Stop
  \/ Reset
  \/ Expire
  \/ ExpireHandled
  \/ BeginTime
  \/ Advance

Spec == Init /\ [][Next]_vars

\* the timer with subscribers that call it from START handlers as well
NextHandled ==
  \/ Next
  \/ StartHandled
  \/ BeginTimeHandled

SpecHandled == Init /\ [][NextHandled]_vars

TypeOK ==
  /\ duration \in Durations
  /\ continue \in BOOLEAN
  /\ beginTime \in BeginTimes
  /\ state \in {"Stable", "CountingToBeginTime", "Counting"}
  /\ remaining \in 0..3
  /\ now \in 0..MaxTime

\* ---- vocabulary of the properties ----
Types(seq) == [i \in DOMAIN seq |-> seq[i].type]

Ops(seq) == [i \in DOMAIN seq |-> seq[i].op]

\* the step is a call of the public operation op
CallOf(op) ==
  /\ Len(calls') = Len(calls) + 1
  /\ calls'[Len(calls')].op = op

\* the events the step emits
Emitted == SubSeq(events', Len(events) + 1, Len(events'))

\* call c met an idle timer: Stable, nothing remaining, nothing scheduled
MetIdle(c) == c.st = "Stable" /\ c.rem = 0 /\ c.npend = 0

MetPaused(c) == c.st = "Stable" /\ c.rem > 0

DefaultOptions == ~continue /\ beginTime = 0

\* C1: once stop() is called while a countdown is in progress, no TICK is
\* emitted afterwards unless start() is called again (a resume() after the
\* stop() does not bring one back), whatever calls preceded the stop().
StoppedWhileCounting ==
  \E i \in DOMAIN calls :
    /\ calls[i].op = "stop"
    /\ calls[i].st = "Counting"
    /\ \A j \in (i + 1)..Len(calls) : calls[j].op # "start"

C1_NoTickAfterStop ==
  [][StoppedWhileCounting =>
       \A k \in DOMAIN Emitted : Emitted[k].type # "TICK"]_vars

\* C2: start() called while the timer is already counting schedules no
\* second expiry callback and emits no second START.
C2_StartWhileCountingIsNoOp ==
  [][(CallOf("start") /\ state = "Counting") =>
       /\ Len(pending') <= Len(pending)
       /\ Emitted = <<>>]_vars

\* C3: at most one scheduled callback (begin-time wake-up or countdown
\* expiry) is pending at any time.
C3_AtMostOnePending == Len(pending) <= 1

\* C4: pause() on a counting timer after e < D ms of counting stores
\* max(remaining - e, 0), so the remaining time read while paused is at
\* most D - e.
C4_PauseStoresRemaining ==
  [][(CallOf("pause") /\ state = "Counting" /\ calls[Len(calls)].op = "start"
        /\ MetIdle(calls[Len(calls)]) /\ now - startTime < duration) =>
       /\ remaining' = Max(remaining - (now - startTime), 0)
       /\ getRemainingMilliseconds' <= duration - (now - startTime)]_vars

\* C5: across pause()/resume() cycles of one countdown the TICK fires when
\* the time spent counting, paused intervals excluded, sums to the duration.
RECURSIVE CountedTime(_)
CountedTime(ev) ==
  IF Len(ev) < 2 THEN 0
  ELSE (IF ev[1].type \in {"START", "RESUME"} THEN ev[2].at - ev[1].at ELSE 0)
       + CountedTime(Tail(ev))

RECURSIVE PauseResumeOnly(_)
PauseResumeOnly(ops) ==
  \/ ops = <<>>
  \/ /\ Len(ops) >= 2
     /\ ops[1] = "pause"
     /\ ops[2] = "resume"
     /\ PauseResumeOnly(SubSeq(ops, 3, Len(ops)))

C5_TickAfterDurationOfCounting ==
  (/\ DefaultOptions
   /\ calls # <<>>
   /\ calls[1].op = "start"
   /\ PauseResumeOnly(Tail(Ops(calls)))
   /\ events # <<>>
   /\ events[Len(events)].type = "TICK")
  => CountedTime(events) = duration

\* the events emitted since call number k was made
Since(k) == SubSeq(events, calls[k].nev + 1, Len(events))

\* C6: with default options, start() on an idle timer followed by no other
\* call emits START in the call itself, then exactly one TICK, exactly D after
\* the START and not before; the events are [START, TICK] and the timer is
\* then stopped (isStopped, not isCounting, not isPaused).
C6_Case ==
  /\ DefaultOptions
  /\ calls # <<>>
  /\ calls[Len(calls)].op = "start"
  /\ MetIdle(calls[Len(calls)])

C6_Holds ==
  LET ev == Since(Len(calls))
  IN /\ Len(ev) \in {1, 2}
     /\ ev[1].type = "START"
     /\ Len(ev) = 1 =>
          /\ now <= ev[1].at + duration
          /\ Len(pending) = 1
          /\ pending[1].due = ev[1].at + duration
     /\ Len(ev) = 2 =>
          /\ ev[2] = [type |-> "TICK", at |-> ev[1].at + duration]
          /\ pending = <<>>
          /\ isStopped
          /\ ~isCounting
          /\ ~isPaused

C6_StartThenOneTick ==
  [][/\ (DefaultOptions /\ CallOf("start") /\ state = "Stable"
           /\ remaining = 0 /\ pending = <<>>)
          => Emitted = <<[type |-> "START", at |-> now]>>
     /\ (C6_Case => C6_Holds)']_vars

C6_Witness ==
  /\ C6_Case
  /\ Len(calls) > 1
  /\ Len(Since(Len(calls))) = 2
  /\ isStopped

\* C7: for a default timer, start(), pause() before expiry, resume() and
\* natural completion emit exactly START, PAUSE, RESUME, TICK, in that order,
\* each once.
C7_Case ==
  LET n == Len(calls)
  IN /\ DefaultOptions
     /\ n >= 3
     /\ calls[n - 2].op = "start"
     /\ MetIdle(calls[n - 2])
     /\ calls[n - 1].op = "pause"
     /\ calls[n - 1].st = "Counting"
     /\ calls[n].op = "resume"

C7_StartPauseResumeTick ==
  C7_Case =>
    LET ev == Types(Since(Len(calls) - 2))
    IN /\ state = "Counting" => ev = <<"START", "PAUSE", "RESUME">>
       /\ state = "Stable" => ev = <<"START", "PAUSE", "RESUME", "TICK">>
       /\ state \in {"Counting", "Stable"}
       /\ state = "Stable" => pending = <<>>

C7_Witness ==
  /\ C7_Case
  /\ state = "Stable"
  /\ Len(events) = 4
  /\ events[2].at > events[1].at

\* C8: stop() on a counting or paused timer emits exactly one STOP and leaves
\* the timer stopped with remaining 0; start(),stop() and
\* start(),pause(),stop() yield [START, STOP] and [START, PAUSE, STOP]; a
\* resume() after that stop() emits nothing and starts no countdown.
C8_StopCase ==
  /\ CallOf("stop")
  /\ state = "Counting" \/ (state = "Stable" /\ remaining > 0)

C8_ResumeAfterStopCase ==
  /\ CallOf("resume")
  /\ DefaultOptions
  /\ Ops(calls) \in {<<"start", "stop">>, <<"start", "pause", "stop">>}
  /\ calls[2].st = "Counting"

C8_Sequences ==
  /\ (/\ DefaultOptions
      /\ Ops(calls) \in {<<"start", "stop">>, <<"start", "stop", "resume">>}
      /\ calls[2].st = "Counting")
     => Types(events) = <<"START", "STOP">>
  /\ (/\ DefaultOptions
      /\ Ops(calls) \in {<<"start", "pause", "stop">>,
                         <<"start", "pause", "stop", "resume">>}
      /\ calls[2].st = "Counting")
     => Types(events) = <<"START", "PAUSE", "STOP">>

C8_StopEmitsOneStop ==
  [][/\ C8_StopCase =>
          /\ Emitted = <<[type |-> "STOP", at |-> now]>>
          /\ remaining' = 0
          /\ state' = "Stable"
          /\ isStopped'
          /\ ~isCounting'
          /\ ~isPaused'
     /\ C8_ResumeAfterStopCase =>
          /\ Emitted = <<>>
          /\ UNCHANGED <<state, remaining, pending>>
     /\ C8_Sequences']_vars

C8_Witness ==
  /\ DefaultOptions
  /\ Ops(calls) = <<"start", "pause", "stop", "resume">>
  /\ calls[2].st = "Counting"
  /\ Types(events) = <<"START", "PAUSE", "STOP">>
  /\ events[3].at > events[2].at
  /\ now > events[3].at + duration

\* C9: with continue set and duration D, one start() emits exactly one START
\* and then a TICK every D ms (the k-th at k*D after the START), no further
\* START, while stop()/pause()/reset() is not called; after stop() no more
\* TICK is emitted (D = 2, stop 5 ms after the start: exactly 2 TICKs).
C9_Running ==
  /\ continue
  /\ beginTime = 0
  /\ calls # <<>>
  /\ calls[Len(calls)].op = "start"
  /\ MetIdle(calls[Len(calls)])

C9_Stopped ==
  /\ continue
  /\ beginTime = 0
  /\ Len(calls) >= 2
  /\ calls[Len(calls) - 1].op = "start"
  /\ MetIdle(calls[Len(calls) - 1])
  /\ calls[Len(calls)].op = "stop"

TicksEvery(ev, n) ==
  \A k \in 2..n : ev[k] = [type |-> "TICK", at |-> ev[1].at + (k - 1) * duration]

C9_ContinueTicksEveryDuration ==
  /\ C9_Running =>
       LET ev == Since(Len(calls))
       IN /\ Len(ev) >= 1
          /\ ev[1].type = "START"
          /\ TicksEvery(ev, Len(ev))
          /\ now <= ev[1].at + Len(ev) * duration
          /\ state = "Counting"
  /\ C9_Stopped =>
       LET ev == Since(Len(calls) - 1)
           n == Len(ev)
       IN /\ n >= 2
          /\ ev[1].type = "START"
          /\ TicksEvery(ev, n - 1)
          /\ ev[n].type = "STOP"
          /\ (n - 2) * duration <= ev[n].at - ev[1].at
          /\ ev[n].at - ev[1].at <= (n - 1) * duration
          /\ pending = <<>>
          /\ state = "Stable"

C9_Witness ==
  /\ C9_Stopped
  /\ duration = 2
  /\ LET ev == Since(Len(calls) - 1)
     IN /\ Len(ev) = 4
        /\ ev[4].at - ev[1].at = 5
  /\ now > events[Len(events)].at

\* C10: with beginTime in the future, after start() and until beginTime is
\* reached no event is emitted and the queries report isStopped, not
\* isCounting, not isPaused and 0 remaining milliseconds.
C10_Case ==
  /\ beginTime # 0
  /\ now < beginTime
  /\ \E i \in DOMAIN calls : calls[i].op = "start"

C10_SilentBeforeBeginTime ==
  C10_Case =>
    /\ events = <<>>
    /\ isStopped
    /\ ~isCounting
    /\ ~isPaused
    /\ getRemainingMilliseconds = 0

C10_Witness ==
  /\ C10_Case
  /\ state = "CountingToBeginTime"
  /\ now > 0
  /\ Len(pending) = 1

\* ev is the event stream of one countdown begun by its first event, a START:
\* TICKs follow every duration, none overdue; without continue there is one
\* TICK and the timer is then Stable with nothing scheduled.
CountsDown(ev) ==
  /\ Len(ev) >= 1
  /\ ev[1].type = "START"
  /\ TicksEvery(ev, Len(ev))
  /\ continue =>
       /\ state = "Counting"
       /\ now <= ev[1].at + Len(ev) * duration
  /\ ~continue =>
       /\ Len(ev) <= 2
       /\ Len(ev) = 1 => (state = "Counting" /\ now <= ev[1].at + duration)
       /\ Len(ev) = 2 => (state = "Stable" /\ pending = <<>>)

\* C11: with beginTime in the future and no cancelling call, start() leads to
\* START when beginTime is reached and to TICK one duration later, the events
\* being [START, TICK] (with continue, a TICK every duration after beginTime).
C11_Case ==
  /\ beginTime # 0
  /\ calls # <<>>
  /\ calls[Len(calls)].op = "start"
  /\ MetIdle(calls[Len(calls)])
  /\ calls[Len(calls)].early

C11_StartsAtBeginTime ==
  C11_Case =>
    LET ev == Since(Len(calls))
    IN /\ state = "CountingToBeginTime" =>
            /\ ev = <<>>
            /\ now <= beginTime
            /\ Len(pending) = 1
            /\ pending[1].kind = "begin"
            /\ pending[1].due = beginTime
       /\ state # "CountingToBeginTime" =>
            /\ CountsDown(ev)
            /\ ev[1].at = beginTime

C11_Witness ==
  /\ C11_Case
  /\ ~continue
  /\ Types(Since(Len(calls))) = <<"START", "TICK">>
  /\ now > events[Len(events)].at

\* C12: with beginTime already past, start() on an idle timer switches to
\* Counting within the call: START is emitted in the call, once, no begin-time
\* callback is scheduled, and the TICK follows one duration later.
C12_After ==
  /\ beginTime # 0
  /\ calls # <<>>
  /\ calls[Len(calls)].op = "start"
  /\ MetIdle(calls[Len(calls)])
  /\ ~calls[Len(calls)].early
  /\ Since(Len(calls)) # <<>>
  /\ Since(Len(calls))[1].at > beginTime

C12_PastBeginTimeStartsAtOnce ==
  [][/\ (/\ CallOf("start")
         /\ state = "Stable" /\ remaining = 0 /\ pending = <<>>
         /\ beginTime # 0 /\ now > beginTime)
        => /\ Emitted = <<[type |-> "START", at |-> now]>>
           /\ state' = "Counting"
           /\ Len(pending') = 1
           /\ pending'[1].kind = "count"
           /\ pending'[1].due = now + duration
     /\ (C12_After => CountsDown(Since(Len(calls))))']_vars

C12_Witness ==
  /\ C12_After
  /\ ~continue
  /\ Types(Since(Len(calls))) = <<"START", "TICK">>

\* C13: while the timer waits for a future beginTime, pause(), stop() and
\* reset() each cancel the begin-time callback and return to Stable without
\* any event; afterwards no START and no TICK is emitted unless start() is
\* called again.
Cancelling == {"pause", "stop", "reset"}

CancelledWaiting ==
  \E i \in DOMAIN calls :
    /\ calls[i].op \in Cancelling
    /\ calls[i].st = "CountingToBeginTime"
    /\ calls[i].early
    /\ \A j \in (i + 1)..Len(calls) : calls[j].op \notin {"start", "tick:start"}

C13_CancelWhileWaiting ==
  [][/\ (/\ \E op \in Cancelling : CallOf(op)
         /\ state = "CountingToBeginTime"
         /\ now < beginTime)
        => /\ Emitted = <<>>
           /\ state' = "Stable"
           /\ pending' = <<>>
           /\ remaining' = remaining
     /\ CancelledWaiting'
        => \A k \in DOMAIN Emitted : Emitted[k].type \notin {"START", "TICK"}]_vars

C13_Witness ==
  /\ CancelledWaiting
  /\ state = "Stable"
  /\ events = <<>>
  /\ now > beginTime + duration

\* the step emits a TICK
EmitsTick == \E k \in DOMAIN Emitted : Emitted[k].type = "TICK"

\* C14: public operations may be called from a handler of the timer's own
\* events: when the TICK handler of a continue timer calls stop(), the timer
\* is Stable with remaining 0 and nothing pending once the expiry callback
\* returns, and no further TICK is emitted.
StoppedInTickHandler ==
  \E i \in DOMAIN calls :
    /\ calls[i].op = "tick:stop"
    /\ \A j \in (i + 1)..Len(calls) : calls[j].op \notin {"start", "tick:start"}

C14_StopInTickHandler ==
  [][/\ (continue /\ CallOf("tick:stop"))
        => /\ state' = "Stable"
           /\ remaining' = 0
           /\ pending' = <<>>
     /\ (continue /\ StoppedInTickHandler) => ~EmitsTick]_vars

\* C15: on a Stable timer pause() always, and stop(), resume() and reset()
\* when the remaining time is 0, are silent no-ops: no event, no callback
\* scheduled, state, remaining time and start timestamp unchanged.
C15_Case ==
  /\ state = "Stable"
  /\ \/ CallOf("pause")
     \/ /\ remaining = 0
        /\ \E op \in {"stop", "resume", "reset"} : CallOf(op)

C15_StableNoOps ==
  [][C15_Case =>
       UNCHANGED <<state, remaining, startTime, subscribed, pending, events>>]_vars

C15_Witness ==
  /\ Len(calls) >= 2
  /\ calls[Len(calls)].op = "resume"
  /\ MetIdle(calls[Len(calls)])
  /\ calls[Len(calls)].nev = Len(events)
  /\ Len(events) >= 2
  /\ state = "Stable"
  /\ now > events[Len(events)].at

\* C16: start() on a paused timer (Stable, remaining > 0) emits no START and
\* does not restart the timer: it stays paused and no TICK follows until
\* resume() is called.
StartedWhilePaused ==
  /\ calls # <<>>
  /\ calls[Len(calls)].op = "start"
  /\ MetPaused(calls[Len(calls)])

C16_StartWhilePausedIsNoOp ==
  [][/\ (CallOf("start") /\ state = "Stable" /\ remaining > 0)
        => /\ Emitted = <<>>
           /\ state' = "Stable"
           /\ pending' = pending
           /\ remaining' = remaining
     /\ StartedWhilePaused => ~EmitsTick]_vars

\* C17: exactly one of isCounting(), isPaused(), isStopped() is true:
\* counting in Counting; in Stable paused iff remaining > 0 and stopped iff
\* remaining = 0; stopped while waiting for beginTime.  A new timer is
\* stopped, start() (with no beginTime ahead) makes it counting, pause() of a
\* counting timer makes it paused, stop() of a counting or Stable timer and
\* natural completion make it stopped.
B2N(b) == IF b THEN 1 ELSE 0

C17_Status ==
  /\ B2N(isCounting) + B2N(isPaused) + B2N(isStopped) = 1
  /\ state = "Counting" => isCounting
  /\ state = "Stable" => /\ isPaused <=> remaining > 0
                         /\ isStopped <=> remaining = 0
  /\ state = "CountingToBeginTime" => isStopped
  /\ calls = <<>> => isStopped

C17_ExactlyOneStatus ==
  /\ C17_Status
  /\ [][/\ C17_Status'
        /\ (CallOf("start") /\ (beginTime = 0 \/ now > beginTime)) => isCounting'
        /\ (CallOf("pause") /\ state = "Counting") => isPaused'
        /\ (CallOf("stop") /\ state \in {"Counting", "Stable"}) => isStopped'
        /\ (~continue /\ calls' = calls /\ EmitsTick) => isStopped']_vars

C17_Witness ==
  /\ calls # <<>>
  /\ calls[Len(calls)].op = "pause"
  /\ calls[Len(calls)].st = "Counting"
  /\ isPaused
  /\ ~isStopped
  /\ ~isCounting
  /\ now > events[1].at

\* C18: reset() on a counting or paused timer leaves the state stop() would
\* leave (Stable, remaining 0, start timestamp cleared, no pending callback)
\* and differs only in the event emitted, RESET instead of STOP.
C18_ResetLikeStop ==
  [][(CallOf("reset") /\ (state = "Counting" \/ (state = "Stable" /\ remaining > 0)))
       => LET t == TimerStop(Cur)
          IN /\ state' = "Stable" /\ t.st = "Stable"
             /\ remaining' = 0 /\ t.remaining = 0
             /\ startTime' = -1 /\ t.startTime = -1
             /\ pending' = <<>> /\ t.pending = <<>>
             /\ subscribed' = t.sub
             /\ events' = Append(events, [type |-> "RESET", at |-> now])
             /\ t.events = Append(events, [type |-> "STOP", at |-> now])]_vars

\* C19: with continue, pause() during a cycle suspends the ticking (no TICK
\* while paused) and the next resume() resumes counting: the interrupted cycle
\* completes with a TICK, TICKs every duration follow it, and there is no new
\* START.
C19_Paused ==
  LET n == Len(calls)
  IN /\ continue
     /\ beginTime = 0
     /\ n >= 2
     /\ calls[n - 1].op = "start"
     /\ MetIdle(calls[n - 1])
     /\ calls[n].op = "pause"
     /\ calls[n].st = "Counting"

C19_Resumed ==
  LET n == Len(calls)
  IN /\ continue
     /\ beginTime = 0
     /\ n >= 3
     /\ calls[n - 2].op = "start"
     /\ MetIdle(calls[n - 2])
     /\ calls[n - 1].op = "pause"
     /\ calls[n - 1].st = "Counting"
     /\ calls[n].op = "resume"

C19_PauseSuspendsResumeContinues ==
  /\ C19_Paused =>
       LET ev == Since(Len(calls) - 1)
           m == Len(ev)
       IN /\ m >= 2
          /\ ev[1].type = "START"
          /\ TicksEvery(ev, m - 1)
          /\ ev[m].type = "PAUSE"
          /\ pending = <<>>
          /\ state = "Stable"
          /\ isPaused
  /\ C19_Resumed =>
       LET ev == Since(Len(calls) - 2)
           m == Len(ev)
           p == CHOOSE k \in DOMAIN ev : ev[k].type = "PAUSE"
       IN /\ m >= 3
          /\ ev[1].type = "START"
          /\ TicksEvery(ev, p - 1)
          /\ ev[p + 1].type = "RESUME"
          /\ \A j \in (p + 2)..m : ev[j].type = "TICK"
          /\ m >= p + 2 => /\ ev[p + 2].at > ev[p + 1].at
                           /\ ev[p + 2].at <= ev[p + 1].at + duration
          /\ \A j \in (p + 3)..m : ev[j].at = ev[j - 1].at + duration
          /\ now <= ev[m].at + duration
          /\ state = "Counting"
          /\ Len(pending) = 1

C19_Witness ==
  /\ C19_Resumed
  /\ LET ev == Since(Len(calls) - 2)
     IN /\ Types(ev) = <<"START", "PAUSE", "RESUME", "TICK", "TICK">>
        /\ ev[2].at > ev[1].at
        /\ ev[3].at > ev[2].at

\* C20: whenever the active state is Stable no scheduled callback is pending;
\* a callback is pending only in Counting or CountingToBeginTime, so no TICK
\* is emitted while the timer reports paused or stopped.
C20_NothingPendingWhenStable ==
  [][/\ state' = "Stable" => pending' = <<>>
     /\ EmitsTick => (~isPaused /\ ~isStopped)]_vars

\* C21: when the TICK handler of a timer without continue calls start(), the
\* timer counts a fresh cycle once the expiry callback returns: the state is
\* Counting (isCounting, not isPaused), exactly one expiry callback is
\* pending, due one duration later, and the callback emitted TICK then START.
C21_StartInTickHandler ==
  [][(~continue /\ CallOf("tick:start") /\ state = "Counting" /\ Len(pending) = 1)
       => /\ state' = "Counting"
          /\ isCounting'
          /\ ~isPaused'
          /\ Len(pending') = 1
          /\ pending'[1].due = now + duration
          /\ Types(Emitted) = <<"TICK", "START">>]_vars

\* the step ends with the call op made from inside an event handler
HandlerCall(op) ==
  /\ Len(calls') > Len(calls)
  /\ calls'[Len(calls')].op = op

\* C22: a stop() or pause() called from a START handler takes effect: STOP
\* (respectively PAUSE) is emitted after the START, and when the outer
\* start() returns the timer is Stable with no expiry callback pending, so
\* that no TICK follows.
C22_StopInStartHandler ==
  [][/\ (HandlerCall("start:stop") /\ pending = <<>>)
        => /\ Types(Emitted) = <<"START", "STOP">>
           /\ state' = "Stable"
           /\ pending' = <<>>
     /\ (HandlerCall("start:pause") /\ pending = <<>>)
        => /\ Types(Emitted) = <<"START", "PAUSE">>
           /\ state' = "Stable"
           /\ pending' = <<>>]_vars

\* C23: in every Counting state getRemainingMilliseconds() is the time left
\* until the pending expiry callback of the current countdown fires, also
\* after pause()/resume() cycles.
C23_RemainingIsTimeToExpiry ==
  (/\ state = "Counting"
   /\ DefaultOptions
   /\ calls # <<>>
   /\ calls[1].op = "start"
   /\ PauseResumeOnly(Tail(Ops(calls))))
  => /\ Len(pending) = 1
     /\ getRemainingMilliseconds = pending[1].due - now

\* C24: in every reachable state the stored remaining time is between 0 and
\* the duration, and getRemainingMilliseconds() is not negative.
C24_RemainingInRange ==
  /\ 0 <= remaining
  /\ remaining <= duration
  /\ getRemainingMilliseconds >= 0

C24_Witness ==
  /\ state = "Counting"
  /\ remaining = duration
  /\ remaining - (now - startTime) < 0
  /\ getRemainingMilliseconds = 0
  /\ pending # <<>>

\* C25: whenever the active state is CountingToBeginTime the stored remaining
\* time is 0, so getRemainingMilliseconds() returns 0 there whatever calls
\* came before (pause() followed by start() included).
C25_NoRemainingWhileWaiting ==
  state = "CountingToBeginTime" =>
    /\ remaining = 0
    /\ getRemainingMilliseconds = 0

\* C26: without continue, after a countdown has completed naturally (TICK
\* emitted, timer Stable with remaining 0) a new start() begins a full cycle:
\* it emits a new START and one more TICK one duration later, so that n
\* completed start() cycles give n STARTs and n TICKs, alternating.
C26_Case ==
  /\ ~continue
  /\ calls # <<>>
  /\ \A i \in DOMAIN calls : calls[i].op = "start" /\ MetIdle(calls[i])

C26_Cycles ==
  LET n == Len(calls)
      m == Len(events)
  IN /\ m \in {2 * n - 2, 2 * n - 1, 2 * n}
     /\ \A k \in 1..m :
          IF k % 2 = 1
          THEN events[k].type = "START"
          ELSE events[k] = [type |-> "TICK", at |-> events[k - 1].at + duration]
     /\ \A i \in 1..n : calls[i].nev = 2 * (i - 1)
     /\ m = 2 * n - 2 => state = "CountingToBeginTime"
     /\ m = 2 * n - 1 => /\ state = "Counting"
                         /\ now <= events[m].at + duration
                         /\ Len(pending) = 1
                         /\ pending[1].due = events[m].at + duration
     /\ m = 2 * n => /\ state = "Stable"
                     /\ remaining = 0
                     /\ pending = <<>>

C26_FreshCycleAfterCompletion ==
  [][/\ (/\ CallOf("start")
         /\ C26_Case
         /\ Len(events) = 2 * Len(calls))
        => /\ Emitted = <<[type |-> "START", at |-> now]>>
           /\ state' = "Counting"
           /\ remaining' = duration
     /\ (C26_Case => C26_Cycles)']_vars

C26_Witness ==
  /\ C26_Case
  /\ Len(calls) = 2
  /\ Len(events) = 4
  /\ events[3].at > events[2].at
  /\ now > events[4].at

\* C27: resume() called while the timer is Counting or waiting in
\* CountingToBeginTime changes nothing: no event, the pending callbacks are
\* neither cancelled nor rescheduled, remaining time, start timestamp and
\* active state are unchanged.
C27_Case ==
  /\ CallOf("resume")
  /\ state \in {"Counting", "CountingToBeginTime"}

C27_ResumeWhileRunningIsNoOp ==
  [][C27_Case =>
       UNCHANGED <<state, remaining, startTime, subscribed, pending, events>>]_vars

C27_Witness ==
  /\ Len(calls) >= 2
  /\ calls[Len(calls)].op = "resume"
  /\ calls[Len(calls)].st = "Counting"
  /\ calls[Len(calls) - 1].op = "resume"
  /\ calls[Len(calls) - 1].st = "CountingToBeginTime"
  /\ state = "Stable"
  /\ Types(events) = <<"START", "TICK">>

\* C28: start() called again while the timer waits for a future beginTime is
\* a no-op: no second begin-time callback is scheduled, the wake-up time is
\* unchanged, and when beginTime is reached exactly one START is emitted.
C28_Case ==
  /\ beginTime # 0
  /\ Len(calls) >= 2
  /\ \A i \in DOMAIN calls : calls[i].op = "start" /\ calls[i].early
  /\ MetIdle(calls[1])

C28_OneWakeUp ==
  /\ now < beginTime =>
       /\ events = <<>>
       /\ state = "CountingToBeginTime"
       /\ Len(pending) = 1
       /\ pending[1].kind = "begin"
       /\ pending[1].due = beginTime
  /\ events # <<>> =>
       /\ CountsDown(events)
       /\ events[1].at = beginTime
       /\ Cardinality({k \in DOMAIN events : events[k].type = "START"}) = 1

C28_StartWhileWaitingIsNoOp ==
  [][/\ (CallOf("start") /\ state = "CountingToBeginTime" /\ now < beginTime)
        => UNCHANGED <<state, remaining, startTime, subscribed, pending, events>>
     /\ (C28_Case => C28_OneWakeUp)']_vars

C28_Witness ==
  /\ C28_Case
  /\ ~continue
  /\ calls[2].st = "CountingToBeginTime"
  /\ Types(events) = <<"START", "TICK">>
  /\ now > events[2].at

\* the number of pending callbacks of the given kind
NumPending(seq, kind) ==
  Cardinality({i \in DOMAIN seq : seq[i].kind = kind})

\* the step is the firing of a begin-time callback with no handler call
BeginFired ==
  /\ calls' = calls
  /\ NumPending(pending', "begin") < NumPending(pending, "begin")

\* the step is the firing of an expiry callback with no handler call
ExpireFired ==
  /\ calls' = calls
  /\ now' = now
  /\ vars' # vars
  /\ ~BeginFired

\* C29: every call of a public operation emits at most one event, within the
\* call; each expiry callback emits exactly one TICK (followed only by what a
\* call made from its handler emits); events are appended to the stream in
\* the order of the calls and firings that caused them.
C29_OneEventPerStep ==
  [][/\ (\E op \in PublicOps : CallOf(op)) => Len(Emitted) <= 1
     /\ ExpireFired => Emitted = <<[type |-> "TICK", at |-> now]>>
     /\ (\E op \in PublicOps : CallOf(InTick(op)))
          => /\ Len(Emitted) \in {1, 2}
             /\ Emitted[1] = [type |-> "TICK", at |-> now]
     /\ BeginFired => Len(Emitted) <= 1
     /\ Len(events') >= Len(events)
     /\ SubSeq(events', 1, Len(events)) = events
     /\ \A k \in DOMAIN Emitted : Emitted[k].at = now
     /\ \A k \in 1..(Len(events') - 1) : events'[k].at <= events'[k + 1].at
     /\ \A i \in DOMAIN calls' : \A j \in DOMAIN calls' :
          i < j => calls'[i].nev <= calls'[j].nev]_vars

C29_Witness ==
  /\ continue
  /\ Ops(calls) = <<"start", "pause", "resume", "stop">>
  /\ Types(events) = <<"START", "TICK", "PAUSE", "RESUME", "STOP">>
  /\ events[5].at > events[4].at

\* C30: when a PAUSE, STOP, RESET or (without continue) TICK event is
\* delivered, the active state is already Stable, and for STOP, RESET and
\* TICK the remaining time is already 0: a handler querying the timer during
\* delivery sees the status after the transition.
C30_DeliveredAfterTransition ==
  \A k \in DOMAIN events :
    /\ (\/ events[k].type \in {"PAUSE", "STOP", "RESET"}
        \/ (events[k].type = "TICK" /\ ~continue))
       => delivered[k].st = "Stable"
    /\ (\/ events[k].type \in {"STOP", "RESET"}
        \/ (events[k].type = "TICK" /\ ~continue))
       => delivered[k].remaining = 0
====
